---------------------------- MODULE Spec2Model ----------------------------
(***************************************************************************)
(* The dialogue editor of src/src/App.tsx as a state machine.              *)
(*                                                                         *)
(* A JavaScript string is a sequence of characters; a character is a       *)
(* one-element TLA+ string, and a run of letters that needs no escaping    *)
(* (a uuid, a property name, a hex colour) is written as one character.    *)
(* An object is a function from its property names to values, an array a   *)
(* sequence.  A value returned by JSON.parse carries its runtime type:     *)
(* [type |-> "string" | "array" | "object" | "undefined", v |-> ...].      *)
(***************************************************************************)
EXTENDS Integers, Sequences, FiniteSets, TLC

VARIABLES
    dialogue,        \* useState<Dialogue>                    (App.tsx:45)
    responseColors,  \* useState<Record<string, string>>      (App.tsx:52)
    usedColors,      \* module-level Set<string>              (App.tsx:26)
    issued,          \* how many ids uuidv4() has returned    (App.tsx:86)
    file,            \* text of the downloaded dialogue.json  (App.tsx:121)
    exported,        \* the dialogue the download was written from
    last             \* the handler that ran last, with its locals

vars == <<dialogue, responseColors, usedColors, issued, file, exported, last>>

-----------------------------------------------------------------------------
(* Bounds of the model.                                                    *)

\* The palette of the model is the first NumColors of the twelve pastelColors.
NumColors == 2
\* Lines the user adds in Spec.
MaxLines == 2
\* Ids uuidv4() hands out in a behaviour.
MaxIds == 3
\* Lines the user adds and ids uuidv4() hands out in CapSpec.
MaxCapLines == 1
MaxCapIds == 5
\* Lines the user adds and ids uuidv4() hands out in FileSpec.
MaxFileLines == 1
MaxFileIds == 1

\* The Add Response button is rendered while responses.length < 4.
MaxResponses == 4

-----------------------------------------------------------------------------
(* Small helpers over sequences and objects.                               *)

Remove(seq, i) == [j \in 1..(Len(seq) - 1) |-> IF j < i THEN seq[j] ELSE seq[j + 1]]

Range(seq) == {seq[i] : i \in DOMAIN seq}

\* { ...obj, [key]: val }
With(obj, key, val) ==
    [k \in (DOMAIN obj) \cup {key} |-> IF k = key THEN val ELSE obj[k]]

\* obj after `delete obj[k]` for every k in keys
Without(obj, keys) == [k \in (DOMAIN obj) \ keys |-> obj[k]]

RECURSIVE Concat(_)
Concat(parts) == IF parts = <<>> THEN <<>> ELSE Head(parts) \o Concat(Tail(parts))

RECURSIVE JoinWith(_, _)
JoinWith(parts, sep) ==
    IF Len(parts) = 1 THEN parts[1]
    ELSE parts[1] \o sep \o JoinWith(Tail(parts), sep)

\* The property name a sequence of characters spells.
RECURSIVE Spell(_)
Spell(s) == IF s = <<>> THEN "" ELSE s[1] \o Spell(Tail(s))

-----------------------------------------------------------------------------
(* JSON.stringify(dialogue, null, 2)                                       *)
\* Properties are written in the order the handlers create them, which is the
\* order of the interfaces; the characters typed here need no escape other
\* than those of the quotation mark, the backslash and the line feed.

\* EscapeChar with the quotation mark left as it is.
EscapeChar_QuoteUnescaped(c) ==
    IF c = "\\" THEN <<"\\", "\\">>
    ELSE IF c = "\n" THEN <<"\\", "n">>
    ELSE <<c>>

EscapeChar(c) ==
    IF c = "\"" THEN <<"\\", "\"">>
    ELSE IF c = "\\" THEN <<"\\", "\\">>
    ELSE IF c = "\n" THEN <<"\\", "n">>
    ELSE <<c>>

Escape(s) == Concat([i \in DOMAIN s |-> EscapeChar(s[i])])

Quote(s) == <<"\"">> \o Escape(s) \o <<"\"">>

\* A line break followed by two spaces per level.
Indent(depth) == <<"\n">> \o [i \in 1..depth |-> "  "]

Block(open, close, parts, depth) ==
    IF parts = <<>> THEN <<open, close>>
    ELSE <<open>> \o Indent(depth + 1)
         \o JoinWith(parts, <<",">> \o Indent(depth + 1))
         \o Indent(depth) \o <<close>>

Member(key, valueText) == <<"\"", key, "\"", ":", " ">> \o valueText

\* The own properties of obj among `order`, in that order.
Keys(obj, order) == SelectSeq(order, LAMBDA k : k \in DOMAIN obj)

StringifyResponse(r, depth) ==
    LET ks == Keys(r, <<"id", "text">>)
    IN Block("{", "}", [i \in DOMAIN ks |-> Member(ks[i], Quote(r[ks[i]]))], depth)

StringifyLine(l, depth) ==
    LET ks == Keys(l, <<"requiredResponseId", "characterName", "characterImage",
                        "text", "responses">>)
        val(k) == IF k = "responses"
                  THEN Block("[", "]",
                             [j \in DOMAIN l.responses |->
                                 StringifyResponse(l.responses[j], depth + 2)],
                             depth + 1)
                  ELSE Quote(l[k])
    IN Block("{", "}", [i \in DOMAIN ks |-> Member(ks[i], val(ks[i]))], depth)

Stringify(d) ==
    LET ks == Keys(d, <<"requiredResponseId", "backgoundMusic", "backgroundImage",
                        "lines">>)
        val(k) == IF k = "lines"
                  THEN Block("[", "]",
                             [j \in DOMAIN d.lines |-> StringifyLine(d.lines[j], 2)],
                             1)
                  ELSE Quote(d[k])
    IN Block("{", "}", [i \in DOMAIN ks |-> Member(ks[i], val(ks[i]))], 0)

-----------------------------------------------------------------------------
(* JSON.parse(json): a recursive-descent reader of strings, arrays and     *)
(* objects.  pos is the index of the next unread character.                *)

SyntaxError == [ok |-> FALSE, v |-> <<>>, pos |-> 0]

Parsed(type, v, pos) == [ok |-> TRUE, v |-> [type |-> type, v |-> v], pos |-> pos]

IsWhitespace(c) == c \in {" ", "  ", "\n"}

RECURSIVE SkipWhitespace(_, _)
SkipWhitespace(t, p) ==
    IF p <= Len(t) /\ IsWhitespace(t[p]) THEN SkipWhitespace(t, p + 1) ELSE p

\* p is just past the opening quote.
RECURSIVE ParseString(_, _, _)
ParseString(t, p, acc) ==
    IF p > Len(t) THEN SyntaxError
    ELSE IF t[p] = "\"" THEN Parsed("string", acc, p + 1)
    ELSE IF t[p] = "\\" THEN
        IF p + 1 > Len(t) THEN SyntaxError
        ELSE IF t[p + 1] \in {"\"", "\\"} THEN ParseString(t, p + 2, Append(acc, t[p + 1]))
        ELSE IF t[p + 1] = "n" THEN ParseString(t, p + 2, Append(acc, "\n"))
        ELSE SyntaxError
    ELSE IF t[p] = "\n" THEN SyntaxError
    ELSE ParseString(t, p + 1, Append(acc, t[p]))

RECURSIVE ParseValue(_, _), ParseElements(_, _, _), ParseMembers(_, _, _)

\* p is at the first character of an element.
ParseElements(t, p, acc) ==
    LET r == ParseValue(t, p)
        q == SkipWhitespace(t, r.pos)
    IN IF ~r.ok THEN SyntaxError
       ELSE IF q > Len(t) THEN SyntaxError
       ELSE IF t[q] = "," THEN ParseElements(t, SkipWhitespace(t, q + 1), Append(acc, r.v))
       ELSE IF t[q] = "]" THEN Parsed("array", Append(acc, r.v), q + 1)
       ELSE SyntaxError

\* p is at the opening quote of a property name.
ParseMembers(t, p, acc) ==
    IF p > Len(t) \/ t[p] # "\"" THEN SyntaxError
    ELSE
    LET k == ParseString(t, p + 1, <<>>)
        c == SkipWhitespace(t, k.pos)
    IN IF ~k.ok THEN SyntaxError
       ELSE IF c > Len(t) \/ t[c] # ":" THEN SyntaxError
       ELSE
       LET r == ParseValue(t, SkipWhitespace(t, c + 1))
           q == SkipWhitespace(t, r.pos)
           members == (Spell(k.v.v) :> r.v) @@ acc
       IN IF ~r.ok THEN SyntaxError
          ELSE IF q > Len(t) THEN SyntaxError
          ELSE IF t[q] = "," THEN ParseMembers(t, SkipWhitespace(t, q + 1), members)
          ELSE IF t[q] = "}" THEN Parsed("object", members, q + 1)
          ELSE SyntaxError

ParseValue(t, p) ==
    IF p > Len(t) THEN SyntaxError
    ELSE IF t[p] = "\"" THEN ParseString(t, p + 1, <<>>)
    ELSE IF t[p] = "[" THEN
        LET q == SkipWhitespace(t, p + 1)
        IN IF q <= Len(t) /\ t[q] = "]" THEN Parsed("array", <<>>, q + 1)
           ELSE ParseElements(t, q, <<>>)
    ELSE IF t[p] = "{" THEN
        LET q == SkipWhitespace(t, p + 1)
        IN IF q <= Len(t) /\ t[q] = "}" THEN Parsed("object", <<>>, q + 1)
           ELSE ParseMembers(t, q, <<>>)
    ELSE SyntaxError

JSONParse(t) ==
    LET r == ParseValue(t, SkipWhitespace(t, 1))
    IN IF r.ok /\ SkipWhitespace(t, r.pos) > Len(t) THEN r ELSE SyntaxError

\* The value behind the runtime type: what `as Dialogue` leaves in the state.
RECURSIVE Untag(_)
Untag(v) ==
    IF v.type = "string" THEN v.v
    ELSE [k \in DOMAIN v.v |-> Untag(v.v[k])]

Undefined == [type |-> "undefined", v |-> <<>>]

\* v[k] of a parsed value
Prop(v, k) ==
    IF v.type = "object" THEN (IF k \in DOMAIN v.v THEN v.v[k] ELSE Undefined)
    ELSE Undefined

-----------------------------------------------------------------------------
(* getRandomColor()                                                        *)

pastelColors ==
    SubSeq(<<"#fde2e2", "#d0ebff", "#d3f9d8", "#fff3bf",
             "#e0c3fc", "#c8f2ef", "#fbe0c3", "#fcd5ce",
             "#e0f7fa", "#f1f0ff", "#e6e6fa", "#faf3dd">>, 1, NumColors)

availableColors(used) == SelectSeq(pastelColors, LAMBDA color : color \notin used)

\* What the module-level set holds when a colour is picked: cleared first
\* when nothing is available.
UsedAtPick(used) == IF Len(availableColors(used)) = 0 THEN {} ELSE used

\* Every outcome of one call: Math.random() may select any available colour.
getRandomColor(used) ==
    LET u == UsedAtPick(used)
        available == availableColors(u)
    IN {[selected |-> available[i], usedColors |-> u \cup {available[i]}] :
            i \in DOMAIN available}

-----------------------------------------------------------------------------
(* The state and what the render derives from it.                          *)

\* uuidv4(): the n-th id handed out; no two calls return the same id.
uuidv4(n) == <<"u" \o ToString(n)>>

NewDialogue ==
    [requiredResponseId |-> <<>>, backgoundMusic |-> <<>>,
     backgroundImage |-> <<>>, lines |-> <<>>]

NewLine ==
    [requiredResponseId |-> <<>>, characterName |-> <<>>,
     characterImage |-> <<>>, text |-> <<>>, responses |-> <<>>]

\* dialogue.lines.flatMap((line) => line.responses)
FlatResponses(d) == Concat([i \in DOMAIN d.lines |-> d.lines[i].responses])

allResponses == FlatResponses(dialogue)

\* allResponses.find(r => r.id === line.requiredResponseId): the index of the
\* first match in the flattened responses of d, 0 when there is none.
FindResponse(d, id) ==
    LET all == FlatResponses(d)
        hits == {k \in DOMAIN all : all[k].id = id}
    IN IF hits = {} THEN 0 ELSE CHOOSE k \in hits : \A h \in hits : k <= h

matchingResponse(d, lineIndex) == FindResponse(d, d.lines[lineIndex].requiredResponseId)

Ran(op) ==
    [op |-> op, deletedResponses |-> <<>>, error |-> "", json |-> <<>>, drawn |-> <<>>]

Init ==
    /\ dialogue = NewDialogue
    /\ responseColors = <<>>
    /\ usedColors = {}
    /\ issued = 0
    /\ file = <<>>
    /\ exported = <<>>
    /\ last = Ran("init")

-----------------------------------------------------------------------------
(* The handlers.                                                           *)

handleAddLine ==
    /\ dialogue' = [dialogue EXCEPT !.lines = Append(@, NewLine)]
    /\ last' = Ran("addLine")
    /\ UNCHANGED <<responseColors, usedColors, issued, file, exported>>

\* handleDeleteLine without the setResponseColors call.
handleDeleteLine_KeepsColors(lineIndex) ==
    LET responses == dialogue.lines[lineIndex].responses
        deletedResponses == [j \in DOMAIN responses |-> responses[j].id]
    IN /\ dialogue' = [dialogue EXCEPT !.lines = Remove(@, lineIndex)]
       /\ last' = [Ran("deleteLine") EXCEPT !.deletedResponses = deletedResponses]
       /\ UNCHANGED <<responseColors, usedColors, issued, file, exported>>

handleDeleteLine(lineIndex) ==
    LET responses == dialogue.lines[lineIndex].responses
        deletedResponses == [j \in DOMAIN responses |-> responses[j].id]
    IN /\ dialogue' = [dialogue EXCEPT !.lines = Remove(@, lineIndex)]
       /\ responseColors' = Without(responseColors, Range(deletedResponses))
       /\ last' = [Ran("deleteLine") EXCEPT !.deletedResponses = deletedResponses]
       /\ UNCHANGED <<usedColors, issued, file, exported>>

\* The button that calls the handler is rendered only while the line holds
\* fewer than MaxResponses responses.
handleAddResponse(lineIndex) ==
    /\ Len(dialogue.lines[lineIndex].responses) < MaxResponses
    /\ LET newId == uuidv4(issued + 1)
           newResponse == [id |-> newId, text |-> <<>>]
       IN \E pick \in getRandomColor(usedColors) :
            /\ usedColors' = pick.usedColors
            /\ dialogue' = [dialogue EXCEPT !.lines[lineIndex].responses =
                                                Append(@, newResponse)]
            /\ responseColors' = With(responseColors, newId, pick.selected)
            /\ last' = Ran("addResponse")
    /\ issued' = issued + 1
    /\ UNCHANGED <<file, exported>>

\* The updater assigns the filtered array to the line object of the previous
\* state; React runs the updater once for the update.
handleDeleteResponse(lineIndex, responseIndex) ==
    LET responseId == dialogue.lines[lineIndex].responses[responseIndex].id
    IN /\ dialogue' = [dialogue EXCEPT !.lines[lineIndex].responses =
                                           Remove(@, responseIndex)]
       /\ responseColors' = Without(responseColors, {responseId})
       /\ last' = [Ran("deleteResponse") EXCEPT !.deletedResponses = <<responseId>>]
       /\ UNCHANGED <<usedColors, issued, file, exported>>

\* onChange of the three inputs above the lines.
updateDialogueField(field, value) ==
    /\ dialogue' = With(dialogue, field, value)
    /\ last' = Ran("updateField")
    /\ UNCHANGED <<responseColors, usedColors, issued, file, exported>>

\* onChange of an input of a line.
updateLineField(lineIndex, field, value) ==
    /\ dialogue' = [dialogue EXCEPT !.lines[lineIndex] = With(@, field, value)]
    /\ last' = Ran("updateField")
    /\ UNCHANGED <<responseColors, usedColors, issued, file, exported>>

\* onClick of the k-th chip of the response picker of a line.
pickRequiredResponse(lineIndex, k) ==
    /\ dialogue' = [dialogue EXCEPT !.lines[lineIndex] =
                        With(@, "requiredResponseId", allResponses[k].id)]
    /\ last' = Ran("updateField")
    /\ UNCHANGED <<responseColors, usedColors, issued, file, exported>>

\* onChange of the text input of a response.
updateResponseText(lineIndex, responseIndex, value) ==
    /\ dialogue' = [dialogue EXCEPT !.lines[lineIndex].responses[responseIndex] =
                        With(@, "text", value)]
    /\ last' = Ran("updateField")
    /\ UNCHANGED <<responseColors, usedColors, issued, file, exported>>

\* The browser saves the blob as dialogue.json.
handleExport ==
    /\ file' = Stringify(dialogue)
    /\ exported' = dialogue
    /\ last' = Ran("export")
    /\ UNCHANGED <<dialogue, responseColors, usedColors, issued>>

\* line.responses.forEach(response => newColors[response.id] = getRandomColor())
\* from the j-th response on: every outcome [error, newColors, usedColors, drawn].
RECURSIVE EachResponse(_, _, _)
EachResponse(responses, j, st) ==
    IF j > Len(responses) THEN {st}
    ELSE LET id == Prop(responses[j], "id")
             key == IF id.type = "string" THEN id.v ELSE <<"undefined">>
         IN UNION {EachResponse(responses, j + 1,
                                [st EXCEPT !.newColors = With(@, key, pick.selected),
                                           !.usedColors = pick.usedColors,
                                           !.drawn = Append(@, pick.selected)]) :
                       pick \in getRandomColor(st.usedColors)}

\* imported.lines.forEach(line => ...) from the i-th line on; a line whose
\* responses is no array throws a TypeError there.
RECURSIVE EachLine(_, _, _)
EachLine(lines, i, st) ==
    IF i > Len(lines) THEN {st}
    ELSE LET responses == Prop(lines[i], "responses")
         IN IF responses.type # "array" THEN {[st EXCEPT !.error = "TypeError"]}
            ELSE UNION {EachLine(lines, i + 1, o) :
                            o \in EachResponse(responses.v, 1, st)}

\* Every outcome of reader.onload on the text json.
Onload(json, used) ==
    LET start == [error |-> "", newColors |-> <<>>, usedColors |-> used, drawn |-> <<>>]
        parsed == JSONParse(json)
    IN IF ~parsed.ok THEN {[start EXCEPT !.error = "SyntaxError"]}
       ELSE IF Prop(parsed.v, "lines").type # "array"
            THEN {[start EXCEPT !.error = "TypeError"]}
       ELSE EachLine(Prop(parsed.v, "lines").v, 1, start)

\* handleImport that spreads the previous colours under the new ones.
handleImport_KeepsColors(json) ==
    /\ \E o \in Onload(json, usedColors) :
         /\ usedColors' = o.usedColors
         /\ last' = [Ran("import") EXCEPT !.json = json, !.error = o.error,
                                         !.drawn = o.drawn]
         /\ IF o.error # ""
            THEN UNCHANGED <<dialogue, responseColors>>
            ELSE /\ dialogue' = Untag(JSONParse(json).v)
                 /\ responseColors' = o.newColors @@ responseColors
    /\ UNCHANGED <<issued, file, exported>>

\* handleImport with the file's text json, and the reader's onload.  The
\* handler itself changes no state and onload reads none of dialogue and
\* responseColors, so the two are one step.  An exception leaves the two
\* setters uncalled; the colours drawn before it stay in usedColors.
handleImport(json) ==
    /\ \E o \in Onload(json, usedColors) :
         /\ usedColors' = o.usedColors
         /\ last' = [Ran("import") EXCEPT !.json = json, !.error = o.error,
                                         !.drawn = o.drawn]
         /\ IF o.error # ""
            THEN UNCHANGED <<dialogue, responseColors>>
            ELSE /\ dialogue' = Untag(JSONParse(json).v)
                 /\ responseColors' = o.newColors
    /\ UNCHANGED <<issued, file, exported>>

-----------------------------------------------------------------------------
(* The files the user imports.                                             *)

LineOf(required, ids) ==
    [NewLine EXCEPT !.requiredResponseId = required,
                    !.responses = [j \in DOMAIN ids |-> [id |-> ids[j], text |-> <<>>]]]

\* A hand-edited file in which a line was copied: "x" is the id of two
\* responses, and the dialogue and the second line require it.
CopiedLineDoc ==
    Stringify([NewDialogue EXCEPT !.requiredResponseId = <<"x">>,
                                  !.lines = <<LineOf(<<>>, <<<<"x">>>>),
                                              LineOf(<<"x">>, <<<<"x">>>>)>>])

\* A file whose line holds five responses.
FiveResponsesDoc ==
    Stringify([NewDialogue EXCEPT !.lines =
        <<LineOf(<<>>, <<<<"a">>, <<"b">>, <<"c">>, <<"d">>, <<"e">>>>)>>])

\* {"lines": []}
OnlyLinesDoc == Stringify([lines |-> <<>>])

\* {}
EmptyObjectDoc == Stringify(<<>>)

\* A download cut short.
TruncatedDoc == SubSeq(Stringify(NewDialogue), 1, Len(Stringify(NewDialogue)) - 1)

\* {"lines": [{..., "responses": [{"id": "x", ...}]}, {}]}
BrokenLineDoc == Stringify([lines |-> <<LineOf(<<>>, <<<<"x">>>>), <<>>>>])

\* What the user types into a text input: empty, or text that needs escaping.
Typed == {<<>>, <<"a", "\"", "\\", "\n", "n">>}

-----------------------------------------------------------------------------
(* Spec: editing lines, responses and required responses, and importing    *)
(* files of the Dialogue shape.                                            *)

LiveIds(d) == {FlatResponses(d)[k].id : k \in DOMAIN FlatResponses(d)}

Next ==
    \/ Len(dialogue.lines) < MaxLines /\ handleAddLine
    \/ \E i \in DOMAIN dialogue.lines : handleDeleteLine(i)
    \/ \E i \in DOMAIN dialogue.lines : issued < MaxIds /\ handleAddResponse(i)
    \/ \E i \in DOMAIN dialogue.lines :
         \E j \in DOMAIN dialogue.lines[i].responses : handleDeleteResponse(i, j)
    \/ \E i \in DOMAIN dialogue.lines :
         \E k \in DOMAIN allResponses : pickRequiredResponse(i, k)
    \/ handleImport(CopiedLineDoc)

Spec == Init /\ [][Next]_vars

(* CapSpec: one line, filled to the cap by the button or past it by a file. *)

CapNext ==
    \/ Len(dialogue.lines) < MaxCapLines /\ handleAddLine
    \/ \E i \in DOMAIN dialogue.lines : handleDeleteLine(i)
    \/ \E i \in DOMAIN dialogue.lines : issued < MaxCapIds /\ handleAddResponse(i)
    \/ handleImport(FiveResponsesDoc)

CapSpec == Init /\ [][CapNext]_vars

(* FileSpec: typing text, exporting, and importing the download or a       *)
(* malformed file.                                                         *)

FileNext ==
    \/ Len(dialogue.lines) < MaxFileLines /\ handleAddLine
    \/ \E i \in DOMAIN dialogue.lines :
         /\ issued < MaxFileIds
         /\ handleAddResponse(i)
    \/ \E value \in Typed : updateDialogueField("backgoundMusic", value)
    \/ \E i \in DOMAIN dialogue.lines, value \in Typed : updateLineField(i, "text", value)
    \/ \E i \in DOMAIN dialogue.lines :
         \E j \in DOMAIN dialogue.lines[i].responses, value \in Typed :
            updateResponseText(i, j, value)
    \/ handleExport
    \/ file # <<>> /\ handleImport(file)
    \/ \E json \in {OnlyLinesDoc, EmptyObjectDoc, TruncatedDoc, BrokenLineDoc} :
         handleImport(json)

FileSpec == Init /\ [][FileNext]_vars

-----------------------------------------------------------------------------
(* The Dialogue shape of the interfaces.                                   *)

\* A state value with exactly the properties of interface Dialogue.
HasDialogueShape(d) ==
    /\ DOMAIN d = {"requiredResponseId", "backgoundMusic", "backgroundImage", "lines"}
    /\ \A i \in DOMAIN d.lines :
         /\ DOMAIN d.lines[i] = {"requiredResponseId", "characterName",
                                 "characterImage", "text", "responses"}
         /\ \A j \in DOMAIN d.lines[i].responses :
              DOMAIN d.lines[i].responses[j] = {"id", "text"}

IsString(v) == v.type = "string"

\* A parsed value that conforms to interface Dialogue.
IsDialogue(v) ==
    /\ v.type = "object"
    /\ \A k \in {"requiredResponseId", "backgoundMusic", "backgroundImage"} :
         IsString(Prop(v, k))
    /\ Prop(v, "lines").type = "array"
    /\ \A i \in DOMAIN Prop(v, "lines").v :
         LET line == Prop(v, "lines").v[i]
         IN /\ line.type = "object"
            /\ \A k \in {"requiredResponseId", "characterName", "characterImage", "text"} :
                 IsString(Prop(line, k))
            /\ Prop(line, "responses").type = "array"
            /\ \A j \in DOMAIN Prop(line, "responses").v :
                 LET response == Prop(line, "responses").v[j]
                 IN /\ response.type = "object"
                    /\ IsString(Prop(response, "id"))
                    /\ IsString(Prop(response, "text"))

-----------------------------------------------------------------------------
(* The claims.                                                             *)

\* C1: every key of responseColors is the id of a response present in some
\* line, and after deleteLine or deleteResponse no id of a removed response
\* is a key of responseColors.
C1_NoColorLeak ==
    /\ DOMAIN responseColors \subseteq LiveIds(dialogue)
    /\ last.op \in {"deleteLine", "deleteResponse"} =>
         Range(last.deletedResponses) \cap DOMAIN responseColors = {}

\* C1's case: a line with responses was deleted while other responses keep
\* their colours.
C1_Witness ==
    /\ last.op = "deleteLine"
    /\ last.deletedResponses # <<>>
    /\ DOMAIN responseColors # {}

\* C2: no line ever holds more than 4 responses.
C2_ResponseCap ==
    \A i \in DOMAIN dialogue.lines : Len(dialogue.lines[i].responses) <= MaxResponses

\* C3: no two responses of the dialogue, in the same line or in different
\* lines, carry the same id.
C3_UniqueIds ==
    \A k1, k2 \in DOMAIN allResponses :
        k1 # k2 => allResponses[k1].id # allResponses[k2].id

\* C4: while the live responses are no more than the palette's colours, the
\* colours responseColors gives to the live ids are pairwise distinct.
C4_DistinctColors ==
    Len(allResponses) <= Len(pastelColors) =>
        \A id1, id2 \in LiveIds(dialogue) \cap DOMAIN responseColors :
            id1 # id2 => responseColors[id1] # responseColors[id2]

\* C5: an import of a malformed file reports an error and leaves dialogue
\* and responseColors as they were.
C5_ImportAtomic ==
    [][(/\ last'.op = "import"
        /\ ~JSONParse(last'.json).ok \/ ~IsDialogue(JSONParse(last'.json).v)) =>
          /\ last'.error # ""
          /\ dialogue' = dialogue
          /\ responseColors' = responseColors]_vars

C7_DeleteLineFrame ==
    [][\A i \in DOMAIN dialogue.lines :
          handleDeleteLine(i) =>
            /\ dialogue'.lines = Remove(dialogue.lines, i)
            /\ \A l \in (DOMAIN dialogue.lines) \ {i} :
                 \A j \in DOMAIN dialogue.lines[l].responses :
                    LET id == dialogue.lines[l].responses[j].id
                    IN /\ (id \in DOMAIN responseColors) = (id \in DOMAIN responseColors')
                       /\ id \in DOMAIN responseColors =>
                            responseColors'[id] = responseColors[id]]_vars

\* The requiredResponseId of the dialogue and of every line of d, in order.
RequiredIds(d) ==
    <<d.requiredResponseId>> \o [i \in DOMAIN d.lines |-> d.lines[i].requiredResponseId]

\* C8: deleteLine and deleteResponse change no requiredResponseId of the
\* dialogue or of a remaining line, and a remaining line that requires a
\* removed response finds no matching response afterwards.
C8_DanglingReference ==
    [][/\ \A i \in DOMAIN dialogue.lines :
            handleDeleteLine(i) => RequiredIds(dialogue') = Remove(RequiredIds(dialogue), i + 1)
       /\ \A i \in DOMAIN dialogue.lines :
            \A j \in DOMAIN dialogue.lines[i].responses :
               handleDeleteResponse(i, j) => RequiredIds(dialogue') = RequiredIds(dialogue)
       /\ last'.op \in {"deleteLine", "deleteResponse"} =>
            \A l \in DOMAIN dialogue'.lines :
               dialogue'.lines[l].requiredResponseId \in Range(last'.deletedResponses)
                  => matchingResponse(dialogue', l) = 0]_vars

\* The last index at which id occurs among the responses all.
LastIndexOf(all, id) ==
    CHOOSE k \in DOMAIN all : all[k].id = id /\ \A h \in DOMAIN all : all[h].id = id => h <= k

\* C9: after a successful import the dialogue is the imported document, the
\* keys of responseColors are exactly the response ids of the document, and
\* each id carries the colour drawn for its last occurrence in document order
\* during this import.
C9_ImportRebuilds ==
    (last.op = "import" /\ last.error = "") =>
        LET doc == Untag(JSONParse(last.json).v)
            all == FlatResponses(doc)
        IN /\ dialogue = doc
           /\ DOMAIN responseColors = LiveIds(doc)
           /\ Len(last.drawn) = Len(all)
           /\ Range(last.drawn) \subseteq Range(pastelColors)
           /\ \A id \in LiveIds(doc) : responseColors[id] = last.drawn[LastIndexOf(all, id)]

\* C9's case: a file with responses was imported after uuidv4() had issued
\* ids, none of which is in the file.
C9_Witness ==
    /\ last.op = "import" /\ last.error = ""
    /\ issued > 0
    /\ DOMAIN responseColors # {}

\* C10: every response of the dialogue has an entry in responseColors whose
\* value is a colour of the palette.
C10_EveryResponseColored ==
    \A id \in LiveIds(dialogue) :
        id \in DOMAIN responseColors /\ responseColors[id] \in Range(pastelColors)

=============================================================================
